---- MODULE Spec2Model ----
(***************************************************************************)
(* A state-machine model of the enterprise admin "Manage Learners" view    *)
(* (src/enterprise/admin/views.py) and of the model signal handlers        *)
(* (src/enterprise/signals.py).                                            *)
(*                                                                         *)
(* The database is the state.  Every request handler and every signal      *)
(* handler is one action; what a handler calls (ORM writes, the receivers  *)
(* those writes trigger, API calls) is part of the same action.  Each      *)
(* handler is written as an operator from the database before the call to  *)
(* a record holding the database after it and what the call produced.      *)
(*                                                                         *)
(* Three specifications share the variables:                               *)
(*   SpecViews    the POST and DELETE handlers of the admin view           *)
(*   SpecSignals  the User and EnterpriseCustomerUser signal handlers      *)
(*   SpecCatalog  the EnterpriseCatalogQuery / EnterpriseCustomerCatalog   *)
(*                signal handlers and the catalog service                  *)
(***************************************************************************)
EXTENDS Integers, Sequences, FiniteSets, TLC

VARIABLES
    users,        \* User rows; a user is identified by its email
    ecu,          \* EnterpriseCustomerUser rows: [ec, uid, linked]
    pending,      \* PendingEnterpriseCustomerUser rows: [ec, email]
    pendingEnr,   \* PendingEnrollment rows: [ec, email, course]
    pendingAdmin, \* PendingEnterpriseCustomerAdminUser rows: [ec, email]
    enrolled,     \* EnterpriseCourseEnrollment rows: [ec, uid, course]
    roles,        \* SystemWideEnterpriseUserRoleAssignment rows: [uid, ec, role]
    last,         \* what the last handler run was given and what it did
    queries,      \* EnterpriseCatalogQuery rows: query -> content_filter
    catalogs,     \* EnterpriseCustomerCatalog rows: catalog -> [present, cf, query]
    service       \* catalog uuids the enterprise-catalog service holds

vars == <<users, ecu, pending, pendingEnr, pendingAdmin, enrolled, roles, last,
          queries, catalogs, service>>

viewVars == <<users, ecu, pending, pendingEnr, pendingAdmin, enrolled, roles>>
catalogVars == <<queries, catalogs, service>>

---------------------------------------------------------------------------
(* Bounds and the small input sets.                                        *)

MaxRows == 3

ValidEmails == {"a@x", "b@x"}
BadEmail == "bad"
CsvValues == ValidEmails \cup {BadEmail}
Customers == {"ec1", "ec2"}
CourseInputs == {<<>>, <<"k1", "k2">>}

Username(e) == IF e = "a@x" THEN "ua" ELSE "ub"
FormValues == CsvValues \cup {Username(e) : e \in ValidEmails}

RECURSIVE SeqsUpTo(_, _)
SeqsUpTo(S, n) ==
    IF n = 0 THEN {<<>>}
    ELSE LET shorter == SeqsUpTo(S, n - 1)
         IN  shorter \cup {Append(s, x) : s \in {t \in shorter : Len(t) = n - 1}, x \in S}

SeqToSet(s) == {s[i] : i \in 1..Len(s)}

Orders(S) == {s \in [1..Cardinality(S) -> S] : SeqToSet(s) = S}

DB == [users |-> users, ecu |-> ecu, pending |-> pending, pendingEnr |-> pendingEnr,
       pendingAdmin |-> pendingAdmin, enrolled |-> enrolled, roles |-> roles]

---------------------------------------------------------------------------
(* enterprise.roles_api: role assignments of a user for one enterprise     *)
(* customer.                                                               *)

LearnerRole == "enterprise_learner"
AdminRole == "enterprise_admin"

RoleRow(uid, ec, role) == [uid |-> uid, ec |-> ec, role |-> role]

assign_learner_role(db, uid, ec) ==
    [db EXCEPT !.roles = @ \cup {RoleRow(uid, ec, LearnerRole)}]

assign_admin_role(db, uid, ec) ==
    [db EXCEPT !.roles = @ \cup {RoleRow(uid, ec, AdminRole)}]

delete_learner_role_assignment(db, uid, ec) ==
    [db EXCEPT !.roles = @ \ {RoleRow(uid, ec, LearnerRole)}]

delete_admin_role_assignment(db, uid, ec) ==
    [db EXCEPT !.roles = @ \ {RoleRow(uid, ec, AdminRole)}]

---------------------------------------------------------------------------
(* Receivers of EnterpriseCustomerUser's post_save and post_delete.        *)
(* An instance is an EnterpriseCustomerUser row; instance.user is the User *)
(* with id instance.uid, or None when there is no such User.               *)

EcuRow(ec, uid, linked) == [ec |-> ec, uid |-> uid, linked |-> linked]

HasUser(db, instance) == instance.uid \in db.users

\* delete_enterprise_admin_role_assignment without the enterprise_customer
\* argument: the user's admin role is removed for every customer.
delete_enterprise_admin_role_assignment_all_customers(db, instance) ==
    IF HasUser(db, instance)
    THEN [db EXCEPT !.roles = {r \in @ : ~(r.uid = instance.uid /\ r.role = AdminRole)}]
    ELSE db

delete_enterprise_admin_role_assignment(db, instance) ==
    IF HasUser(db, instance)
    THEN delete_admin_role_assignment(db, instance.uid, instance.ec)
    ELSE db

\* assign_or_delete_enterprise_learner_role without the test of instance.linked:
\* an update always assigns the role.
assign_or_delete_enterprise_learner_role_always_assigns(db, instance, created) ==
    IF ~HasUser(db, instance) THEN db
    ELSE assign_learner_role(db, instance.uid, instance.ec)

assign_or_delete_enterprise_learner_role(db, instance, created) ==
    IF ~HasUser(db, instance) THEN db
    ELSE IF created THEN assign_learner_role(db, instance.uid, instance.ec)
    ELSE IF instance.linked THEN assign_learner_role(db, instance.uid, instance.ec)
    ELSE delete_learner_role_assignment(db, instance.uid, instance.ec)

delete_enterprise_learner_role_assignment(db, instance) ==
    IF ~HasUser(db, instance) THEN db
    ELSE delete_learner_role_assignment(db, instance.uid, instance.ec)

\* post_save of EnterpriseCustomerUser: the receivers in registration order
\* (update_learner_language_preference touches no modelled state).
ecu_post_save(db, instance, created) ==
    assign_or_delete_enterprise_learner_role(db, instance, created)

\* post_delete of EnterpriseCustomerUser: the receivers in registration order.
ecu_post_delete(db, instance) ==
    delete_enterprise_learner_role_assignment(
        delete_enterprise_admin_role_assignment(db, instance), instance)

\* The ORM writes of an EnterpriseCustomerUser row, with the signals they send.
\* (enterprise_customer, user_id) is unique.
EcuOf(db, ec, uid) == {r \in db.ecu : r.ec = ec /\ r.uid = uid}

ecu_save(db, instance) ==
    LET old == EcuOf(db, instance.ec, instance.uid)
        written == [db EXCEPT !.ecu = (@ \ old) \cup {instance}]
    IN  ecu_post_save(written, instance, old = {})

ecu_delete(db, instance) ==
    ecu_post_delete([db EXCEPT !.ecu = @ \ {instance}], instance)

\* Deleting a PendingEnterpriseCustomerUser row cascades to its PendingEnrollments.
PendingRow(ec, email) == [ec |-> ec, email |-> email]

pending_delete(db, p) ==
    [db EXCEPT !.pending = @ \ {p},
               !.pendingEnr = {e \in @ : ~(e.ec = p.ec /\ e.email = p.email)}]

---------------------------------------------------------------------------
(* enterprise.models managers and enterprise.admin.utils, as the admin     *)
(* view uses them.                                                         *)

\* EnterpriseCustomerUser.objects.get_link_by_email: a link of the user with
\* this email, or a pending link of the email, to any enterprise customer.
get_link_by_email(db, email) ==
    \/ email \in db.users /\ \E r \in db.ecu : r.uid = email
    \/ \E p \in db.pending : p.email = email

\* EnterpriseCustomerUser.objects.link_user
link_user(db, ec, email) ==
    IF email \in db.users
    THEN IF EcuOf(db, ec, email) # {} THEN db
         ELSE ecu_save(db, EcuRow(ec, email, TRUE))
    ELSE [db EXCEPT !.pending = @ \cup {PendingRow(ec, email)}]

\* EnterpriseCustomerUser.objects.unlink_user: [found, db]
unlink_user(db, ec, email) ==
    IF email \in db.users
    THEN IF EcuOf(db, ec, email) = {} THEN [found |-> FALSE, db |-> db]
         ELSE [found |-> TRUE,
               db |-> ecu_delete(db, CHOOSE r \in EcuOf(db, ec, email) : TRUE)]
    ELSE IF PendingRow(ec, email) \notin db.pending THEN [found |-> FALSE, db |-> db]
         ELSE [found |-> TRUE, db |-> pending_delete(db, PendingRow(ec, email))]

\* email_or_username__to__email: the email of the User with this username,
\* or the value itself.
email_or_username__to__email(db, value) ==
    IF \E u \in db.users : Username(u) = value
    THEN CHOOSE u \in db.users : Username(u) = value
    ELSE value

\* django validate_email
WellFormed(email) == email \in ValidEmails

\* validate_email_to_link: [ok, msg, linked]; ok = FALSE is a ValidationError
validate_email_to_link(db, email, raw, template, ignore_existing) ==
    IF ~WellFormed(email)
    THEN [ok |-> FALSE, msg |-> <<template, raw>>, linked |-> FALSE]
    ELSE IF get_link_by_email(db, email) /\ ~ignore_existing
    THEN [ok |-> FALSE, msg |-> <<"USER_ALREADY_REGISTERED", email>>, linked |-> TRUE]
    ELSE [ok |-> TRUE, msg |-> <<>>, linked |-> get_link_by_email(db, email)]

\* parse_csv over an uploaded file [ok, rows]: [ok, msg, rows]
parse_csv(csv) ==
    IF csv.ok THEN [ok |-> TRUE, msg |-> <<>>, rows |-> csv.rows]
    ELSE [ok |-> FALSE, msg |-> <<"MISSING_EXPECTED_COLUMNS">>, rows |-> <<>>]

---------------------------------------------------------------------------
(* EnterpriseCustomerManageLearnersView                                    *)

FormError(field, line, msg, arg) ==
    [field |-> field, line |-> line, msg |-> msg, arg |-> arg]

Message(level, kind, count, emails) ==
    [level |-> level, kind |-> kind, count |-> count, emails |-> emails]

NoList == [none |-> TRUE, list |-> <<>>]
TheList(l) == [none |-> FALSE, list |-> l]

\* _handle_singular: [db, errors, linkCalls, ret]
handle_singular(db, ec, value) ==
    LET email == email_or_username__to__email(db, value)
        v == validate_email_to_link(db, email, value, "INVALID_EMAIL_OR_USERNAME", FALSE)
    IN  IF ~v.ok
        THEN [db |-> db,
              errors |-> <<FormError("email_or_username", 0, v.msg[1], v.msg[2])>>,
              linkCalls |-> <<>>, ret |-> NoList, messages |-> <<>>]
        ELSE [db |-> link_user(db, ec, email), errors |-> <<>>,
              linkCalls |-> <<email>>, ret |-> TheList(<<email>>), messages |-> <<>>]

\* bulk_row without the already-linked branch: a linked email counts as new.
bulk_row_links_again(db, acc, index, email) ==
    LET v == validate_email_to_link(db, email, email, "INVALID_EMAIL", TRUE)
    IN  IF ~v.ok
        THEN [acc EXCEPT !.errors = Append(@, FormError("bulk_upload", index + 1, v.msg[1], v.msg[2]))]
        ELSE IF email \in acc.emails
        THEN [acc EXCEPT !.duplicate_emails = Append(@, email)]
        ELSE [acc EXCEPT !.emails = @ \cup {email}]

\* The body of the loop over the rows of the CSV (index counts from 0).
bulk_row(db, acc, index, email) ==
    LET v == validate_email_to_link(db, email, email, "INVALID_EMAIL", TRUE)
    IN  IF ~v.ok
        THEN [acc EXCEPT !.errors = Append(@, FormError("bulk_upload", index + 1, v.msg[1], v.msg[2]))]
        ELSE IF v.linked
        THEN [acc EXCEPT !.already_linked_emails = Append(@, email)]
        ELSE IF email \in acc.emails
        THEN [acc EXCEPT !.duplicate_emails = Append(@, email)]
        ELSE [acc EXCEPT !.emails = @ \cup {email}]

RECURSIVE bulk_rows(_, _, _, _)
bulk_rows(db, acc, rows, index) ==
    IF index >= Len(rows) THEN acc
    ELSE bulk_rows(db, bulk_row(db, acc, index, rows[index + 1]), rows, index + 1)

\* The try block: parse the file and sort its rows into errors, new emails,
\* already linked emails and duplicates.
bulk_collect(db, csv) ==
    LET empty == [errors |-> <<>>, emails |-> {}, already_linked_emails |-> <<>>,
                  duplicate_emails |-> <<>>]
        parsed == parse_csv(csv)
    IN  IF ~parsed.ok
        THEN [empty EXCEPT !.errors = <<FormError("bulk_upload", 0, parsed.msg[1], "")>>]
        ELSE bulk_rows(db, empty, parsed.rows, 0)

RECURSIVE link_all(_, _, _)
link_all(db, ec, emails) ==
    IF emails = <<>> THEN db
    ELSE link_all(link_user(db, ec, Head(emails)), ec, Tail(emails))

\* The order in which a set of emails is iterated: prio lists every email.
SetOrder(S, prio) == SelectSeq(prio, LAMBDA e : e \in S)

bulk_messages(acc) ==
    <<Message("success", "linked", Cardinality(acc.emails), <<>>)>>
    \o (IF acc.already_linked_emails # <<>>
        THEN <<Message("warning", "already_linked", 0, acc.already_linked_emails)>>
        ELSE <<>>)
    \o (IF acc.duplicate_emails # <<>>
        THEN <<Message("warning", "duplicates", 0, acc.duplicate_emails)>>
        ELSE <<>>)

\* _handle_bulk_upload without the early return: the rows that passed are
\* linked although other rows failed.
handle_bulk_upload_links_valid_rows(db, ec, csv, prio) ==
    LET acc == bulk_collect(db, csv)
        emails == SetOrder(acc.emails, prio)
    IN  [db |-> link_all(db, ec, emails),
         errors |-> IF acc.errors # <<>>
                    THEN <<FormError("general_errors", 0, "BULK_LINK_FAILED", "")>> \o acc.errors
                    ELSE <<>>,
         linkCalls |-> emails,
         ret |-> IF acc.errors # <<>> THEN NoList
                 ELSE TheList(emails \o acc.already_linked_emails),
         messages |-> IF acc.errors # <<>> THEN <<>> ELSE bulk_messages(acc)]

\* _handle_bulk_upload: [db, errors, linkCalls, ret, messages]
handle_bulk_upload(db, ec, csv, prio) ==
    LET acc == bulk_collect(db, csv)
        emails == SetOrder(acc.emails, prio)
    IN  IF acc.errors # <<>>
        THEN [db |-> db,
              errors |-> <<FormError("general_errors", 0, "BULK_LINK_FAILED", "")>> \o acc.errors,
              linkCalls |-> <<>>, ret |-> NoList, messages |-> <<>>]
        ELSE [db |-> link_all(db, ec, emails), errors |-> <<>>,
              linkCalls |-> emails,
              ret |-> TheList(emails \o acc.already_linked_emails),
              messages |-> bulk_messages(acc)]

\* _enroll_users, for the rows it writes: [db, raised].  The users that have no
\* account get a PendingEnrollment on their pending link to this customer;
\* looking that link up raises DoesNotExist when there is none.  (Enrolling the
\* users that have an account is a call to the LMS, which holds that state.)
RECURSIVE enroll_pending(_, _, _, _)
enroll_pending(db, ec, non_existing, course) ==
    IF non_existing = <<>> THEN [db |-> db, raised |-> FALSE]
    ELSE IF PendingRow(ec, Head(non_existing)) \notin db.pending
    THEN [db |-> db, raised |-> TRUE]
    ELSE enroll_pending(
             [db EXCEPT !.pendingEnr = @ \cup
                 {[ec |-> ec, email |-> Head(non_existing), course |-> course]}],
             ec, Tail(non_existing), course)

enroll_users(db, ec, emails, course) ==
    IF emails.none THEN [db |-> db, raised |-> TRUE]
    ELSE enroll_pending(db, ec, SelectSeq(emails.list, LAMBDA e : e \notin db.users), course)

\* The loop of post over the course ids: [db, calls, raised]
RECURSIVE enroll_courses(_, _, _, _, _)
enroll_courses(db, ec, emails, course_ids, calls) ==
    IF course_ids = <<>> THEN [db |-> db, calls |-> calls, raised |-> FALSE]
    ELSE LET r == enroll_users(db, ec, emails, Head(course_ids))
             called == Append(calls, [emails |-> emails, course |-> Head(course_ids)])
         IN  IF r.raised THEN [db |-> r.db, calls |-> called, raised |-> TRUE]
             ELSE enroll_courses(r.db, ec, emails, Tail(course_ids), called)

\* post without the second is_valid: errors added by the linking step are ignored.
still_valid_unchecked(formOk, errors) == formOk

\* Whether the form is valid after the linking step: it was, and no error was added.
still_valid(formOk, errors) == formOk /\ errors = <<>>

\* post: what the request did and the response it got.
post(db, ec, formOk, mode, value, csv, course_ids, prio) ==
    LET step == IF ~formOk
                THEN [db |-> db, errors |-> <<>>, linkCalls |-> <<>>, ret |-> NoList,
                      messages |-> <<>>]
                ELSE IF mode = "singular" THEN handle_singular(db, ec, value)
                ELSE handle_bulk_upload(db, ec, csv, prio)
    IN  IF still_valid(formOk, step.errors)
        THEN LET e == enroll_courses(step.db, ec, step.ret, course_ids, <<>>)
             IN  [db |-> e.db, errors |-> step.errors, linkCalls |-> step.linkCalls,
                  ret |-> step.ret, messages |-> step.messages, enrollCalls |-> e.calls,
                  resp |-> IF e.raised THEN "exception" ELSE "redirect"]
        ELSE [db |-> step.db, errors |-> step.errors, linkCalls |-> step.linkCalls,
              ret |-> step.ret, messages |-> step.messages, enrollCalls |-> <<>>,
              resp |-> "render"]

\* delete without the except clause's response: every request is answered 200.
delete_always_ok(db, ec, email) ==
    [db |-> unlink_user(db, ec, email).db, status |-> 200, body |-> "{}"]

\* delete: [db, status, body]
delete(db, ec, email) ==
    LET u == unlink_user(db, ec, email)
    IN  IF ~u.found
        THEN [db |-> u.db, status |-> 404, body |-> "is not linked"]
        ELSE [db |-> u.db, status |-> 200, body |-> "{}"]

---------------------------------------------------------------------------
(* handle_user_post_save and the receivers of                              *)
(* PendingEnterpriseCustomerAdminUser.                                     *)

Event(step, ec) == [step |-> step, ec |-> ec]

PendingOf(db, email) == {p \in db.pending : p.email = email}

\* PendingEnterpriseCustomerUser.link_pending_enterprise_user: the user's link
\* to the pending record's customer, created or updated.
link_pending_enterprise_user(db, p, user, is_user_created) ==
    ecu_save(db, EcuRow(p.ec, user, TRUE))

\* PendingEnterpriseCustomerUser.fulfill_pending_course_enrollments: the user is
\* enrolled in every course a PendingEnrollment of the pending record names.
fulfill_pending_course_enrollments(db, p, user) ==
    [db EXCEPT !.enrolled = @ \cup
        {[ec |-> p.ec, uid |-> user, course |-> e.course] :
            e \in {x \in db.pendingEnr : x.ec = p.ec /\ x.email = p.email}}]

\* PendingEnterpriseCustomerUser.fulfill_pending_group_memberships: groups are
\* not part of the modelled state.
fulfill_pending_group_memberships(db, p, user) == db

\* enterprise.api.activate_admin_permissions: a pending admin record of the
\* user's email for the link's customer becomes the admin role.
activate_admin_permissions(db, row) ==
    IF PendingRow(row.ec, row.uid) \in db.pendingAdmin
    THEN [assign_admin_role(db, row.uid, row.ec)
             EXCEPT !.pendingAdmin = @ \ {PendingRow(row.ec, row.uid)}]
    ELSE db

\* One pending record handled with the delete first: its pending enrollments
\* are gone before they are fulfilled.
pending_ecu_steps_delete_first(r, p, user, created) ==
    LET deleted == pending_delete(r.db, p)
        linked == link_pending_enterprise_user(deleted, p, user, created)
        fulfilled == fulfill_pending_course_enrollments(linked, p, user)
    IN  [db |-> fulfill_pending_group_memberships(fulfilled, p, user),
         trace |-> r.trace \o <<Event("delete", p.ec), Event("link", p.ec),
                                Event("enroll", p.ec), Event("groups", p.ec)>>]

\* The body of the loop over the pending records of the user's email.
pending_ecu_steps(r, p, user, created) ==
    LET linked == link_pending_enterprise_user(r.db, p, user, created)
        fulfilled == fulfill_pending_course_enrollments(linked, p, user)
        grouped == fulfill_pending_group_memberships(fulfilled, p, user)
    IN  [db |-> pending_delete(grouped, p),
         trace |-> r.trace \o <<Event("link", p.ec), Event("enroll", p.ec),
                                Event("groups", p.ec), Event("delete", p.ec)>>]

RECURSIVE pending_ecus_loop(_, _, _, _)
pending_ecus_loop(r, ps, user, created) ==
    IF ps = <<>> THEN r
    ELSE pending_ecus_loop(pending_ecu_steps(r, Head(ps), user, created),
                           Tail(ps), user, created)

RECURSIVE activate_loop(_, _)
activate_loop(r, rows) ==
    IF rows = <<>> THEN r
    ELSE activate_loop([db |-> activate_admin_permissions(r.db, Head(rows)),
                        trace |-> Append(r.trace, Event("activate", Head(rows).ec))],
                       Tail(rows))

\* A query set in the order prio gives to the customers.
RowOrder(rows, prio) ==
    LET ecs == SelectSeq(prio, LAMBDA c : \E x \in rows : x.ec = c)
    IN  [i \in 1..Len(ecs) |-> CHOOSE x \in rows : x.ec = ecs[i]]

\* handle_user_post_save with the links queried before the pending records are
\* handled: the links made from pending records are not activated.
handle_user_post_save_early_query(db, hasInstance, user, created, prio) ==
    IF ~hasInstance THEN [db |-> db, trace |-> <<>>]
    ELSE LET before == RowOrder({x \in db.ecu : x.uid = user}, prio)
             r == pending_ecus_loop([db |-> db, trace |-> <<>>],
                                    RowOrder(PendingOf(db, user), prio), user, created)
         IN  activate_loop(r, before)

\* handle_user_post_save: [db, trace]
handle_user_post_save(db, hasInstance, user, created, prio) ==
    IF ~hasInstance THEN [db |-> db, trace |-> <<>>]
    ELSE LET r == pending_ecus_loop([db |-> db, trace |-> <<>>],
                                    RowOrder(PendingOf(db, user), prio), user, created)
         IN  activate_loop(r, RowOrder({x \in r.db.ecu : x.uid = user}, prio))

\* create_pending_enterprise_admin_user: get_or_create of the pending link
create_pending_enterprise_admin_user(db, instance) ==
    [db EXCEPT !.pending = @ \cup {PendingRow(instance.ec, instance.email)}]

\* delete_pending_enterprise_admin_user
delete_pending_enterprise_admin_user(db, instance) ==
    IF PendingRow(instance.ec, instance.email) \in db.pending
    THEN pending_delete(db, PendingRow(instance.ec, instance.email))
    ELSE db

---------------------------------------------------------------------------
(* The catalog signal handlers and the enterprise-catalog service.         *)

CatalogIds == {"k1", "k2"}
QueryIds == {"q1", "q2"}
NoQuery == "none"
Filters == {"f1", "f2"}
EmptyFilter == ""
DefaultFilter == "default"

CatalogRow(present, cf, query) == [present |-> present, cf |-> cf, query |-> query]
NoCatalog == CatalogRow(FALSE, EmptyFilter, NoQuery)

CDB == [queries |-> queries, catalogs |-> catalogs, service |-> service]

\* What a top-level save has done so far: the tables, the catalog saves in
\* order, the runs of update_enterprise_catalog_data with the requests each
\* sent, and whether an exception is propagating.
Started(cdb) == [cdb |-> cdb, saves |-> <<>>, runs |-> <<>>, raised |-> FALSE]

\* EnterpriseCatalogApiClient.get_enterprise_catalog: [raised, found].  A catalog
\* the service does not hold is a 404, which is an exception unless
\* should_raise_exception is False.
get_enterprise_catalog(cdb, k, should_raise_exception) ==
    IF k \in cdb.service THEN [raised |-> FALSE, found |-> TRUE]
    ELSE [raised |-> should_raise_exception, found |-> FALSE]

\* EnterpriseCatalogApiClient.create_enterprise_catalog
create_enterprise_catalog(cdb, k) == [cdb EXCEPT !.service = @ \cup {k}]

\* EnterpriseCatalogApiClient.update_enterprise_catalog: the service keeps the
\* catalog; its copy of the fields is not modelled.
update_enterprise_catalog(cdb, k) == cdb

Run(k, created, connected, found, calls, raised) ==
    [k |-> k, created |-> created, connected |-> connected, found |-> found,
     calls |-> calls, raised |-> raised]

\* update_enterprise_catalog_data.  connected = FALSE: constructing the client
\* raises NotConnectedToOpenEdX.
update_enterprise_catalog_data(st, k, created, connected) ==
    IF ~connected
    THEN [st EXCEPT !.runs = Append(@, Run(k, created, FALSE, k \in st.cdb.service,
                                           <<>>, FALSE))]
    ELSE LET response == get_enterprise_catalog(st.cdb, k, ~created)
         IN  IF response.raised
             THEN [st EXCEPT !.runs = Append(@, Run(k, created, TRUE, FALSE, <<"get">>, TRUE)),
                             !.raised = TRUE]
             ELSE IF ~response.found
             THEN [st EXCEPT !.cdb = create_enterprise_catalog(@, k),
                             !.runs = Append(@, Run(k, created, TRUE, FALSE,
                                                    <<"get", "create", "refresh">>, FALSE))]
             ELSE [st EXCEPT !.cdb = update_enterprise_catalog(@, k),
                             !.runs = Append(@, Run(k, created, TRUE, TRUE,
                                                    <<"get", "update", "refresh">>, FALSE))]

\* EnterpriseCustomerCatalog.save of a row that exists: the row is written and
\* post_save is sent with created = False (default_content_filter does nothing
\* then).
catalog_resave(st, k, row, connected) ==
    update_enterprise_catalog_data(
        [st EXCEPT !.cdb.catalogs[k] = row, !.saves = Append(@, k)],
        k, FALSE, connected)

\* default_content_filter
default_content_filter(st, k, created, connected) ==
    IF created /\ st.cdb.catalogs[k].cf = EmptyFilter
    THEN catalog_resave(st, k, [st.cdb.catalogs[k] EXCEPT !.cf = DefaultFilter], connected)
    ELSE st

\* EnterpriseCustomerCatalog.save of a new row: the row is written and post_save
\* is sent with created = True to default_content_filter and then, unless that
\* raised, to update_enterprise_catalog_data.
catalog_create(st, k, row, connected) ==
    LET written == [st EXCEPT !.cdb.catalogs[k] = row, !.saves = Append(@, k)]
        first == default_content_filter(written, k, TRUE, connected)
    IN  IF first.raised THEN first
        ELSE update_enterprise_catalog_data(first, k, TRUE, connected)

RECURSIVE query_catalogs_loop(_, _, _, _)
query_catalogs_loop(st, ks, updated_content_filter, connected) ==
    IF ks = <<>> \/ st.raised THEN st
    ELSE query_catalogs_loop(
             catalog_resave(st, Head(ks),
                            [st.cdb.catalogs[Head(ks)] EXCEPT !.cf = updated_content_filter],
                            connected),
             Tail(ks), updated_content_filter, connected)

AssociatedCatalogs(cdb, q) ==
    {k \in CatalogIds : cdb.catalogs[k].present /\ cdb.catalogs[k].query = q}

\* update_enterprise_catalog_query
update_enterprise_catalog_query(st, q, prio, connected) ==
    query_catalogs_loop(st, SelectSeq(prio, LAMBDA k : k \in AssociatedCatalogs(st.cdb, q)),
                        st.cdb.queries[q], connected)

\* INTEGRATED_CHANNELS, in the order of the list.
INTEGRATED_CHANNELS ==
    <<"blackboard", "canvas", "cornerstone", "degreed", "degreed2", "moodle",
      "sap_success_factors">>

\* EnterpriseCatalogApiClient.delete_enterprise_catalog
delete_enterprise_catalog(cdb, k) == [cdb EXCEPT !.service = @ \ {k}]

\* The loop over the integrated channels: active holds the channels that have
\* an active configuration of the catalog's customer.  [checked, queued]: the
\* channels whose configurations were looked up, and whether
\* mark_orphaned_content_metadata_audit was queued.
RECURSIVE channels_loop(_, _, _)
channels_loop(channels, active, checked) ==
    IF channels = <<>> THEN [checked |-> checked, queued |-> FALSE]
    ELSE IF Head(channels) \in active
    THEN [checked |-> Append(checked, Head(channels)), queued |-> TRUE]
    ELSE channels_loop(Tail(channels), active, Append(checked, Head(channels)))

\* delete_enterprise_catalog_data without the except clause: NotConnectedToOpenEdX
\* propagates and the channels are not looked at.
delete_enterprise_catalog_data_unhandled(cdb, k, connected, active) ==
    IF ~connected
    THEN [cdb |-> cdb, calls |-> <<>>, logged |-> FALSE, raised |-> TRUE,
          checked |-> <<>>, queued |-> FALSE]
    ELSE LET c == channels_loop(INTEGRATED_CHANNELS, active, <<>>)
         IN  [cdb |-> delete_enterprise_catalog(cdb, k), calls |-> <<"delete">>,
              logged |-> FALSE, raised |-> FALSE,
              checked |-> c.checked, queued |-> c.queued]

\* delete_enterprise_catalog_data: [cdb, calls, logged, raised, checked, queued].
\* connected = FALSE: constructing the client raises NotConnectedToOpenEdX.
delete_enterprise_catalog_data(cdb, k, connected, active) ==
    LET c == channels_loop(INTEGRATED_CHANNELS, active, <<>>)
    IN  IF ~connected
        THEN [cdb |-> cdb, calls |-> <<>>, logged |-> TRUE, raised |-> FALSE,
              checked |-> c.checked, queued |-> c.queued]
        ELSE [cdb |-> delete_enterprise_catalog(cdb, k), calls |-> <<"delete">>,
              logged |-> FALSE, raised |-> FALSE,
              checked |-> c.checked, queued |-> c.queued]

\* EnterpriseCustomerCatalog.delete: the row is deleted and post_delete is sent.
catalog_delete(cdb, k, connected, active) ==
    delete_enterprise_catalog_data([cdb EXCEPT !.catalogs[k] = NoCatalog],
                                   k, connected, active)

---------------------------------------------------------------------------
(* The admin view as a state machine.                                      *)

SetDB(db) ==
    /\ users' = db.users
    /\ ecu' = db.ecu
    /\ pending' = db.pending
    /\ pendingEnr' = db.pendingEnr
    /\ pendingAdmin' = db.pendingAdmin
    /\ enrolled' = db.enrolled
    /\ roles' = db.roles

NoCatalogs ==
    /\ queries = <<>>
    /\ catalogs = <<>>
    /\ service = {}

Idle == [op |-> "idle"]

EmptyTables ==
    /\ ecu = {}
    /\ pending = {}
    /\ pendingEnr = {}
    /\ pendingAdmin = {}
    /\ enrolled = {}
    /\ roles = {}

InitViews ==
    /\ users \in SUBSET ValidEmails
    /\ EmptyTables
    /\ last = Idle
    /\ NoCatalogs

Csvs == {[ok |-> FALSE, rows |-> <<>>]}
        \cup {[ok |-> TRUE, rows |-> r] : r \in SeqsUpTo(CsvValues, MaxRows)}

\* A request is handled in one step; `last` keeps what it was given, the
\* database it found and what it did, until the response has been sent.
PostRequest(ec, formOk, mode, value, csv, course_ids, prio) ==
    LET r == post(DB, ec, formOk, mode, value, csv, course_ids, prio)
    IN  /\ last = Idle
        /\ SetDB(r.db)
        /\ last' = [op |-> "post", ec |-> ec, formOk |-> formOk, mode |-> mode,
                    value |-> value, csv |-> csv, course_ids |-> course_ids,
                    pre |-> DB, errors |-> r.errors, linkCalls |-> r.linkCalls,
                    ret |-> r.ret, messages |-> r.messages,
                    enrollCalls |-> r.enrollCalls, resp |-> r.resp]
        /\ UNCHANGED catalogVars

NoCsv == [ok |-> TRUE, rows |-> <<>>]

\* A POST whose form fails its initial validation.
PostInvalid ==
    \E ec \in Customers, mode \in {"singular", "bulk"} :
        PostRequest(ec, FALSE, mode, "", NoCsv, <<>>, <<>>)

PostSingular ==
    \E ec \in Customers, value \in FormValues, course_ids \in CourseInputs :
        PostRequest(ec, TRUE, "singular", value, NoCsv, course_ids, <<>>)

PostBulk ==
    \E ec \in Customers, csv \in Csvs, course_ids \in CourseInputs,
       prio \in Orders(ValidEmails) :
        PostRequest(ec, TRUE, "bulk", "", csv, course_ids, prio)

DeleteRequest ==
    \E ec \in Customers, email \in CsvValues :
        LET r == delete(DB, ec, email)
        IN  /\ last = Idle
            /\ SetDB(r.db)
            /\ last' = [op |-> "delete", ec |-> ec, email |-> email, pre |-> DB,
                        status |-> r.status, body |-> r.body]
            /\ UNCHANGED catalogVars

\* The response has been sent; the next request can be handled.
Respond ==
    /\ last # Idle
    /\ last' = Idle
    /\ UNCHANGED <<viewVars, catalogVars>>

NextViews == PostInvalid \/ PostSingular \/ PostBulk \/ DeleteRequest \/ Respond

SpecViews == InitViews /\ [][NextViews]_vars

---------------------------------------------------------------------------
(* Properties of the admin view (checked under SpecViews).                 *)

IsBulkPost == last.op = "post" /\ last.formOk /\ last.mode = "bulk"

BadLines == {i \in 1..Len(last.csv.rows) : ~WellFormed(last.csv.rows[i])}

BulkFailed == IsBulkPost /\ (~last.csv.ok \/ BadLines # {})

ExpectedBulkErrors ==
    IF ~last.csv.ok
    THEN {FormError("bulk_upload", 0, "MISSING_EXPECTED_COLUMNS", "")}
    ELSE {FormError("bulk_upload", i, "INVALID_EMAIL", last.csv.rows[i]) : i \in BadLines}

LinksUnchanged == ecu = last.pre.ecu /\ pending = last.pre.pending

\* C1: a bulk upload in which parsing the file or validating at least one row
\* fails links nobody (link_user is called for no email, also not for the valid
\* rows), puts BULK_LINK_FAILED on the general errors and one bulk-upload error
\* per failure on the form, each row error with its 1-based line number, and
\* returns None.
C1_BulkAllOrNothing ==
    BulkFailed =>
        /\ last.linkCalls = <<>>
        /\ LinksUnchanged
        /\ last.ret.none
        /\ Len(last.errors) = 1 + Cardinality(ExpectedBulkErrors)
        /\ last.errors[1] = FormError("general_errors", 0, "BULK_LINK_FAILED", "")
        /\ {last.errors[k] : k \in 2..Len(last.errors)} = ExpectedBulkErrors

\* A failed upload that also holds a row that could have been linked.
C1_Witness ==
    /\ BulkFailed
    /\ last.csv.ok
    /\ \E i \in 1..Len(last.csv.rows) :
           /\ WellFormed(last.csv.rows[i])
           /\ ~get_link_by_email(last.pre, last.csv.rows[i])
    /\ \E i \in BadLines : i > 1

BulkClean == IsBulkPost /\ last.csv.ok /\ BadLines = {}

NewEmails == {last.csv.rows[i] : i \in {j \in 1..Len(last.csv.rows) :
                  ~get_link_by_email(last.pre, last.csv.rows[j])}}

AlreadyLinkedRows == SelectSeq(last.csv.rows, LAMBDA e : get_link_by_email(last.pre, e))

\* C2: in an error-free bulk upload link_user is called exactly once for each
\* distinct email that is not already linked, and for no other email; the
\* reported count is the number of distinct new emails; the returned list is the
\* distinct new emails followed by the already linked emails.
C2_BulkLinksEachNewEmailOnce ==
    BulkClean =>
        LET n == Cardinality(NewEmails)
        IN  /\ Len(last.linkCalls) = n
            /\ SeqToSet(last.linkCalls) = NewEmails
            /\ last.messages[1] = Message("success", "linked", n, <<>>)
            /\ ~last.ret.none
            /\ Len(last.ret.list) = n + Len(AlreadyLinkedRows)
            /\ SeqToSet(SubSeq(last.ret.list, 1, n)) = NewEmails
            /\ SubSeq(last.ret.list, n + 1, Len(last.ret.list)) = AlreadyLinkedRows

\* An error-free upload with a new email given twice and an already linked one.
C2_Witness ==
    /\ BulkClean
    /\ \E i, j \in 1..Len(last.csv.rows) :
           i < j /\ last.csv.rows[i] = last.csv.rows[j] /\ last.csv.rows[i] \in NewEmails
    /\ AlreadyLinkedRows # <<>>

\* C3: when the linking step of post adds a form error, that step links nobody,
\* _enroll_users is not called and the bound form is rendered again; the
\* redirect is answered only when the form is still valid after the linking
\* step, and _enroll_users is only called with the list the linking step
\* returned, never with None.
C3_PostErrorsStopEnrollment ==
    last.op = "post" =>
        /\ last.errors # <<>> =>
               /\ last.linkCalls = <<>>
               /\ LinksUnchanged
               /\ last.enrollCalls = <<>>
               /\ last.resp = "render"
        /\ last.resp = "redirect" => last.formOk /\ last.errors = <<>>
        /\ \A k \in 1..Len(last.enrollCalls) :
               /\ ~last.enrollCalls[k].emails.none
               /\ last.enrollCalls[k].emails = last.ret

\* The linking step added an error to a form that asked for an enrollment.
C3_Witness ==
    /\ last.op = "post"
    /\ last.formOk
    /\ last.errors # <<>>
    /\ last.course_ids # <<>>

LinkedTo(db, ec, email) ==
    \/ email \in db.users /\ EcuOf(db, ec, email) # {}
    \/ PendingRow(ec, email) \in db.pending

\* C4: DELETE unlinks the email from the chosen customer and answers 200 with an
\* empty JSON object; when the email is linked to that customer neither as an
\* EnterpriseCustomerUser nor as a PendingEnterpriseCustomerUser it answers 404
\* with the "is not linked" message and leaves every link unchanged.
C4_DeleteUnlinksOr404 ==
    last.op = "delete" =>
        IF LinkedTo(last.pre, last.ec, last.email)
        THEN /\ last.status = 200
             /\ last.body = "{}"
             /\ ~LinkedTo(DB, last.ec, last.email)
             /\ \A ec \in Customers, e \in ValidEmails :
                    <<ec, e>> # <<last.ec, last.email>> =>
                        (LinkedTo(DB, ec, e) <=> LinkedTo(last.pre, ec, e))
        ELSE /\ last.status = 404
             /\ last.body = "is not linked"
             /\ LinksUnchanged

\* A DELETE of an email that is linked, but to the other customer.
C4_Witness ==
    /\ last.op = "delete"
    /\ last.status = 404
    /\ \E ec \in Customers : ec # last.ec /\ LinkedTo(last.pre, ec, last.email)

---------------------------------------------------------------------------
(* The signal handlers of users, links and pending admins as a state       *)
(* machine.  Pending links and pending enrollments are made by the admin   *)
(* view, pending admin records and links by any code that saves them.      *)

SigUsers == {"a@x"}

InitSignals ==
    /\ users = {}
    /\ EmptyTables
    /\ last = Idle
    /\ NoCatalogs

\* The admin links a learner by email, with or without a course enrollment.
AdminLinksLearner ==
    \E ec \in Customers, value \in SigUsers, course_ids \in CourseInputs :
        PostRequest(ec, TRUE, "singular", value, NoCsv, course_ids, <<>>)

\* A User row is saved (inserted when there is none yet): post_save of User.
UserSaved ==
    \E user \in SigUsers, prio \in Orders(Customers) :
        LET created == user \notin users
            saved == [DB EXCEPT !.users = @ \cup {user}]
            r == handle_user_post_save(saved, TRUE, user, created, prio)
        IN  /\ last = Idle
            /\ SetDB(r.db)
            /\ last' = [op |-> "user_saved", hasInstance |-> TRUE, user |-> user,
                        created |-> created, pre |-> saved, trace |-> r.trace]
            /\ UNCHANGED catalogVars

\* The signal is sent without an instance.
UserSignalWithoutInstance ==
    \E user \in SigUsers, prio \in Orders(Customers) :
        LET r == handle_user_post_save(DB, FALSE, user, FALSE, prio)
        IN  /\ last = Idle
            /\ SetDB(r.db)
            /\ last' = [op |-> "user_saved", hasInstance |-> FALSE, user |-> user,
                        created |-> FALSE, pre |-> DB, trace |-> r.trace]
            /\ UNCHANGED catalogVars

EcuEvent(op, db, instance) ==
    /\ last = Idle
    /\ SetDB(db)
    /\ last' = [op |-> op, ec |-> instance.ec, uid |-> instance.uid,
                linked |-> instance.linked, pre |-> DB]
    /\ UNCHANGED catalogVars

\* An EnterpriseCustomerUser row is created, updated or deleted.
EcuCreated ==
    \E ec \in Customers, uid \in SigUsers, linked \in BOOLEAN :
        /\ EcuOf(DB, ec, uid) = {}
        /\ EcuEvent("ecu_created", ecu_save(DB, EcuRow(ec, uid, linked)),
                    EcuRow(ec, uid, linked))

EcuUpdated ==
    \E ec \in Customers, uid \in SigUsers, linked \in BOOLEAN :
        /\ EcuOf(DB, ec, uid) # {}
        /\ EcuEvent("ecu_updated", ecu_save(DB, EcuRow(ec, uid, linked)),
                    EcuRow(ec, uid, linked))

EcuDeleted ==
    \E row \in ecu : EcuEvent("ecu_deleted", ecu_delete(DB, row), row)

\* A PendingEnterpriseCustomerAdminUser row is saved or deleted.
PendingAdminSaved ==
    \E ec \in Customers, email \in SigUsers :
        LET row == PendingRow(ec, email)
            saved == [DB EXCEPT !.pendingAdmin = @ \cup {row}]
        IN  /\ last = Idle
            /\ SetDB(create_pending_enterprise_admin_user(saved, row))
            /\ last' = [op |-> "pending_admin_saved", ec |-> ec, email |-> email]
            /\ UNCHANGED catalogVars

PendingAdminDeleted ==
    \E row \in pendingAdmin :
        LET deleted == [DB EXCEPT !.pendingAdmin = @ \ {row}]
        IN  /\ last = Idle
            /\ SetDB(delete_pending_enterprise_admin_user(deleted, row))
            /\ last' = [op |-> "pending_admin_deleted", ec |-> row.ec, email |-> row.email]
            /\ UNCHANGED catalogVars

NextSignals ==
    \/ AdminLinksLearner
    \/ UserSaved
    \/ UserSignalWithoutInstance
    \/ EcuCreated
    \/ EcuUpdated
    \/ EcuDeleted
    \/ PendingAdminSaved
    \/ PendingAdminDeleted
    \/ Respond

SpecSignals == InitSignals /\ [][NextSignals]_vars

---------------------------------------------------------------------------
(* Properties of the user and link signal handlers (checked under          *)
(* SpecSignals).                                                           *)

IsUserSave == last.op = "user_saved" /\ last.hasInstance

PrePending == PendingOf(last.pre, last.user)

Count(step, ec) ==
    Cardinality({i \in 1..Len(last.trace) : last.trace[i] = Event(step, ec)})

Pos(step, ec) == CHOOSE i \in 1..Len(last.trace) : last.trace[i] = Event(step, ec)

\* C5: after handle_user_post_save no pending link with the user's email is
\* left and the user is linked to the customer of each one there was; for each
\* pending link the steps are, in this order, link, fulfil pending course
\* enrollments, fulfil pending group memberships, delete, so every pending
\* enrollment it had has been fulfilled.
C5_PendingLinksFulfilledThenDeleted ==
    IsUserSave =>
        /\ PendingOf(DB, last.user) = {}
        /\ \A p \in PrePending :
               /\ EcuRow(p.ec, last.user, TRUE) \in ecu
               /\ \A step \in {"link", "enroll", "groups", "delete"} : Count(step, p.ec) = 1
               /\ Pos("link", p.ec) < Pos("enroll", p.ec)
               /\ Pos("enroll", p.ec) < Pos("groups", p.ec)
               /\ Pos("groups", p.ec) < Pos("delete", p.ec)
               /\ \A e \in last.pre.pendingEnr :
                      e.ec = p.ec /\ e.email = p.email =>
                          [ec |-> p.ec, uid |-> last.user, course |-> e.course] \in enrolled

\* The user had two pending links, one of them with pending enrollments.
C5_Witness ==
    /\ IsUserSave
    /\ Cardinality(PrePending) = 2
    /\ \E e \in last.pre.pendingEnr : e.email = last.user

UserLinks(db) == {x \in db.ecu : x.uid = last.user}

\* C6: handle_user_post_save calls activate_admin_permissions once for every
\* link of the saved user, those that were there before and those made from
\* pending links in the same call, and only after all pending links have been
\* handled; without an instance the handler does nothing.
C6_ActivatesEveryLinkAfterPending ==
    last.op = "user_saved" =>
        IF last.hasInstance
        THEN /\ \A row \in UserLinks(DB) : Count("activate", row.ec) = 1
             /\ \A row \in UserLinks(last.pre) : Count("activate", row.ec) = 1
             /\ \A p \in PrePending : Count("activate", p.ec) = 1
             /\ \A i \in 1..Len(last.trace) :
                    last.trace[i].step = "activate" =>
                        /\ \E row \in UserLinks(DB) : row.ec = last.trace[i].ec
                        /\ \A j \in 1..Len(last.trace) :
                               last.trace[j].step # "activate" => j < i
        ELSE last.trace = <<>> /\ DB = last.pre

\* The user had a link to one customer and a pending link to another.
C6_Witness ==
    /\ IsUserSave
    /\ \E row \in UserLinks(last.pre), p \in PrePending : row.ec # p.ec

IsEcuEvent == last.op \in {"ecu_created", "ecu_updated", "ecu_deleted"}

\* C7: for a link that has a user, the user holds the learner role of the
\* link's customer after the link is created or updated with linked = True, and
\* does not hold it after an update with linked = False or after the link is
\* deleted; a link without a user changes no role.
C7_LearnerRoleFollowsLink ==
    IsEcuEvent =>
        LET held == RoleRow(last.uid, last.ec, LearnerRole) \in roles
        IN  IF last.uid \in last.pre.users
            THEN /\ (last.op = "ecu_created" \/ (last.op = "ecu_updated" /\ last.linked))
                        => held
                 /\ ((last.op = "ecu_updated" /\ ~last.linked) \/ last.op = "ecu_deleted")
                        => ~held
            ELSE roles = last.pre.roles

\* A link whose user held the learner role is updated to linked = False.
C7_Witness ==
    /\ last.op = "ecu_updated"
    /\ ~last.linked
    /\ last.uid \in last.pre.users
    /\ RoleRow(last.uid, last.ec, LearnerRole) \in last.pre.roles

\* C8: deleting a link that has a user removes the admin role and the learner
\* role of that user for the link's customer, and no role for any other
\* customer.
C8_DeleteRemovesBothRolesOfThatCustomer ==
    last.op = "ecu_deleted" /\ last.uid \in last.pre.users =>
        /\ RoleRow(last.uid, last.ec, AdminRole) \notin roles
        /\ RoleRow(last.uid, last.ec, LearnerRole) \notin roles
        /\ \A r \in last.pre.roles : r.ec # last.ec => r \in roles

\* The user held both roles for the link's customer and the admin role
\* for another customer.
C8_Witness ==
    /\ last.op = "ecu_deleted"
    /\ last.uid \in last.pre.users
    /\ RoleRow(last.uid, last.ec, AdminRole) \in last.pre.roles
    /\ RoleRow(last.uid, last.ec, LearnerRole) \in last.pre.roles
    /\ \E r \in last.pre.roles : r.ec # last.ec /\ r.role = AdminRole

---------------------------------------------------------------------------
(* The catalog handlers as a state machine.                                *)

InitCatalog ==
    /\ users = {}
    /\ EmptyTables
    /\ last = Idle
    /\ queries = [q \in QueryIds |-> "f1"]
    /\ catalogs = [k \in CatalogIds |-> NoCatalog]
    /\ service = {}

CatalogOp(op, target, st, connected) ==
    /\ last = Idle
    /\ queries' = st.cdb.queries
    /\ catalogs' = st.cdb.catalogs
    /\ service' = st.cdb.service
    /\ last' = [op |-> op, target |-> target, connected |-> connected, pre |-> CDB,
                saves |-> st.saves, runs |-> st.runs, raised |-> st.raised]
    /\ UNCHANGED viewVars

\* An EnterpriseCustomerCatalog row is created.
CatalogCreated ==
    \E k \in CatalogIds, cf \in Filters \cup {EmptyFilter}, q \in QueryIds \cup {NoQuery},
       connected \in BOOLEAN :
        /\ ~catalogs[k].present
        /\ CatalogOp("catalog_created", k,
                     catalog_create(Started(CDB), k, CatalogRow(TRUE, cf, q), connected),
                     connected)

\* An EnterpriseCustomerCatalog row is changed and saved.
CatalogUpdated ==
    \E k \in CatalogIds, cf \in Filters, q \in QueryIds \cup {NoQuery}, connected \in BOOLEAN :
        /\ catalogs[k].present
        /\ CatalogOp("catalog_updated", k,
                     catalog_resave(Started(CDB), k, CatalogRow(TRUE, cf, q), connected),
                     connected)

\* An EnterpriseCatalogQuery row is saved with a content filter.
QuerySaved ==
    \E q \in QueryIds, cf \in Filters, prio \in Orders(CatalogIds), connected \in BOOLEAN :
        LET written == [CDB EXCEPT !.queries[q] = cf]
        IN  CatalogOp("query_saved", q,
                      update_enterprise_catalog_query(Started(written), q, prio, connected),
                      connected)

MaxActive == 2

ActiveSets == {a \in SUBSET SeqToSet(INTEGRATED_CHANNELS) : Cardinality(a) <= MaxActive}

\* An EnterpriseCustomerCatalog row is deleted; active: the integrated channels
\* that have an active configuration of its customer at that time.
CatalogDeleted ==
    \E k \in CatalogIds, connected \in BOOLEAN, active \in ActiveSets :
        LET r == catalog_delete(CDB, k, connected, active)
        IN  /\ last = Idle
            /\ catalogs[k].present
            /\ queries' = r.cdb.queries
            /\ catalogs' = r.cdb.catalogs
            /\ service' = r.cdb.service
            /\ last' = [op |-> "catalog_deleted", target |-> k, connected |-> connected,
                        active |-> active, pre |-> CDB, calls |-> r.calls,
                        logged |-> r.logged, raised |-> r.raised,
                        checked |-> r.checked, queued |-> r.queued]
            /\ UNCHANGED viewVars

NextCatalog == CatalogCreated \/ CatalogUpdated \/ QuerySaved \/ CatalogDeleted \/ Respond

SpecCatalog == InitCatalog /\ [][NextCatalog]_vars

---------------------------------------------------------------------------
(* Properties of the catalog handlers (checked under SpecCatalog).         *)

IsCatalogOp == last.op \in {"catalog_created", "catalog_updated", "query_saved"}

SavesOf(k) == Cardinality({i \in 1..Len(last.saves) : last.saves[i] = k})

RunsOf(k) == Cardinality({i \in 1..Len(last.runs) : last.runs[i].k = k})

ExpectedChecked ==
    LET hits == {i \in 1..Len(INTEGRATED_CHANNELS) : INTEGRATED_CHANNELS[i] \in last.active}
    IN  IF hits = {} THEN INTEGRATED_CHANNELS
        ELSE SubSeq(INTEGRATED_CHANNELS, 1, CHOOSE i \in hits : \A j \in hits : i <= j)

\* C11: when NotConnectedToOpenEdX is raised in update_enterprise_catalog_data
\* or in delete_enterprise_catalog_data it is logged and does not propagate, so
\* the local save or delete succeeds; the update handler then sends no create,
\* update or refresh, and the delete handler still checks for active
\* integrated-channel configurations.
C11_NotConnectedIsLoggedNotRaised ==
    /\ (IsCatalogOp /\ ~last.connected) =>
           /\ ~last.raised
           /\ service = last.pre.service
           /\ \A i \in 1..Len(last.runs) :
                  last.runs[i].calls = <<>> /\ ~last.runs[i].raised
           /\ last.op # "query_saved" =>
                  /\ catalogs[last.target].present
                  /\ SavesOf(last.target) >= 1
                  /\ RunsOf(last.target) = SavesOf(last.target)
    /\ (last.op = "catalog_deleted" /\ ~last.connected) =>
           /\ ~last.raised
           /\ last.logged
           /\ last.calls = <<>>
           /\ service = last.pre.service
           /\ ~catalogs[last.target].present
           /\ last.checked = ExpectedChecked
           /\ last.queued = (last.active # {})

\* A catalog the service holds is deleted while the service cannot be reached,
\* and a channel other than the first has an active configuration.
C11_Witness ==
    /\ last.op = "catalog_deleted"
    /\ ~last.connected
    /\ last.target \in last.pre.service
    /\ last.active # {}
    /\ INTEGRATED_CHANNELS[1] \notin last.active

====
